---- MODULE Spec2Model ----
(***************************************************************************)
(* Model of the SAUCE record parser of textmodes/sauce (sauce.go).         *)
(*                                                                         *)
(* Bytes are numbers 0..255, byte slices and Go strings are sequences of   *)
(* bytes (index i of Go is index i+1 here).  A *SAUCE is <<>> for nil and  *)
(* <<record>> for a pointer to a record.  An error is its message, ""      *)
(* for nil.  A []byte that shares its backing array with b is kept as its  *)
(* bounds [lo, hi) in b, so that it reads whatever b holds now.            *)
(***************************************************************************)
EXTENDS Integers, Sequences, FiniteSets, TLC

VARIABLES
    input,      \* the caller's buffer, stream content or resource content
    FileType,   \* package table FileType: DataType -> (FileType -> name)
    MimeType,   \* package table MimeType: DataType -> (FileType -> mime)
    pc,         \* "idle" before the call, "done" after it returned
    op,         \* the entry point that was called
    b,          \* the byte slice ParseBytes worked on (<<>> if never called)
    r,          \* returned *SAUCE
    err,        \* returned error
    ymd,        \* the locals y, m, d of the last parseDate call
    nread,      \* bytes of the resource Parse has read
    ioFail,     \* the underlying reader answers a read with an error
    out,        \* result of the last accessor call on r
    writes      \* caller writes to its buffer after ParseBytes returned

vars == <<input, FileType, MimeType, pc, op, b, r, err, ymd, nread, ioFail, out, writes>>

(***************************************************************************)
(* Bounds of the model.                                                    *)
(***************************************************************************)
MaxExtra == 2       \* bytes in front of the trailing window: 0..MaxExtra
MaxWrites == 1      \* caller writes after ParseBytes returned

(***************************************************************************)
(* Byte and slice helpers.                                                 *)
(***************************************************************************)
Byte == 0..255

\* Go b[lo:hi]
Slice(s, lo, hi) == SubSeq(s, lo + 1, hi)

Rep(n, c) == [i \in 1..n |-> c]

RECURSIVE BitAnd(_, _)
\* Go x & y on unsigned operands
BitAnd(x, y) ==
    IF x = 0 \/ y = 0 THEN 0
    ELSE (IF x % 2 = 1 /\ y % 2 = 1 THEN 1 ELSE 0) + 2 * BitAnd(x \div 2, y \div 2)

RECURSIVE Shr(_, _)
\* Go x >> k on an unsigned operand
Shr(x, k) == IF k = 0 THEN x ELSE Shr(x \div 2, k - 1)

\* binary.LittleEndian.Uint16
Uint16LE(s) == s[1] + 256 * s[2]

\* mutant of Uint32LE: the four bytes read most significant first
Uint32BE(s) == 16777216 * s[1] + 65536 * s[2] + 256 * s[3] + s[4]

\* binary.LittleEndian.Uint32
Uint32LE(s) == s[1] + 256 * s[2] + 65536 * s[3] + 16777216 * s[4]

(***************************************************************************)
(* Package constants and variables.                                        *)
(***************************************************************************)
ID == <<83, 65, 85, 67, 69>>        \* "SAUCE"
Version == <<0, 0>>
errShortRead == "Short read"
errNoSauce == "No SAUCE record"
errOffset == "Seek: invalid offset"
errIO == "read error"

DataTypeBinaryText == 5
DataTypeXBIN == 6
DataTypeExecutable == 8

(***************************************************************************)
(* strings.TrimSpace and strings.Trim on byte strings.                     *)
(***************************************************************************)
\* unicode.IsSpace for single-byte runes: \t \n \v \f \r and space
AsciiSpace == {9, 10, 11, 12, 13, 32}

RECURSIVE TrimLeft(_, _)
TrimLeft(s, cut) ==
    IF s # <<>> /\ s[1] \in cut THEN TrimLeft(Tail(s), cut) ELSE s

RECURSIVE TrimRight(_, _)
TrimRight(s, cut) ==
    IF s # <<>> /\ s[Len(s)] \in cut THEN TrimRight(SubSeq(s, 1, Len(s) - 1), cut) ELSE s

\* strings.Trim(s, cutset)
Trim(s, cut) == TrimRight(TrimLeft(s, cut), cut)

\* strings.TrimSpace(s)
TrimSpace(s) == Trim(s, AsciiSpace)

(***************************************************************************)
(* strconv.Atoi with the error dropped (y, _ := strconv.Atoi(..)).         *)
(***************************************************************************)
IsDigit(c) == c >= 48 /\ c <= 57

RECURSIVE DigitsValue(_, _)
\* n = n*10 + int(ch - '0') over the bytes of s, starting from n
DigitsValue(s, n) ==
    IF s = <<>> THEN n ELSE DigitsValue(Tail(s), n * 10 + (s[1] - 48))

\* mutant of Atoi: no sign is accepted, digits only
AtoiDigitsOnly(s) ==
    IF s = <<>> \/ \E i \in 1..Len(s) : ~IsDigit(s[i]) THEN 0 ELSE DigitsValue(s, 0)

Atoi(s) ==
    IF s = <<>> THEN 0
    ELSE LET signed == s[1] = 43 \/ s[1] = 45
             t == IF signed THEN Tail(s) ELSE s
         IN  IF t = <<>> \/ \E i \in 1..Len(t) : ~IsDigit(t[i]) THEN 0
             ELSE IF s[1] = 45 THEN 0 - DigitsValue(t, 0) ELSE DigitsValue(t, 0)

(***************************************************************************)
(* time.Date(y, time.Month(m), d, 0, 0, 0, 0, time.UTC): the calendar date *)
(* of the normalised value.                                                *)
(***************************************************************************)
DaysFromCivil(y0, m, d) ==
    LET y == IF m <= 2 THEN y0 - 1 ELSE y0
        era == y \div 400
        yoe == y - era * 400
        mp == IF m > 2 THEN m - 3 ELSE m + 9
        doy == (153 * mp + 2) \div 5 + d - 1
        doe == yoe * 365 + yoe \div 4 - yoe \div 100 + doy
    IN  era * 146097 + doe - 719468

CivilFromDays(z0) ==
    LET z == z0 + 719468
        era == z \div 146097
        doe == z - era * 146097
        yoe == (doe - doe \div 1460 + doe \div 36524 - doe \div 146096) \div 365
        doy == doe - (365 * yoe + yoe \div 4 - yoe \div 100)
        mp == (5 * doy + 2) \div 153
        d == doy - (153 * mp + 2) \div 5 + 1
        m == IF mp < 10 THEN mp + 3 ELSE mp - 9
        y == yoe + era * 400
    IN  [y |-> IF m <= 2 THEN y + 1 ELSE y, m |-> m, d |-> d]

timeDate(y, m, d) ==
    LET m0 == m - 1
        yn == y + (m0 \div 12)
        mn == (m0 % 12) + 1
    IN  CivilFromDays(DaysFromCivil(yn, mn, 1) + d - 1)

\* the locals y, m, d of parseDate
parseDateYMD(s) ==
    <<Atoi(Slice(s, 0, 4)), Atoi(Slice(s, 4, 6)), Atoi(Slice(s, 6, 8))>>

parseDate(s) ==
    LET l == parseDateYMD(s) IN timeDate(l[1], l[2], l[3])

(***************************************************************************)
(* The record and the decoder.                                             *)
(***************************************************************************)
NoYMD == <<0, 0, 0>>

\* New(): ID and Version are stamped, TInfos is an empty slice of its own
New ==
    [ID |-> ID, Version |-> Version, Title |-> <<>>, Author |-> <<>>, Group |-> <<>>,
     Date |-> [y |-> 1, m |-> 1, d |-> 1], FileSize |-> 0, DataType |-> 0,
     FileType |-> 0, TInfo |-> <<0, 0, 0, 0>>, Comments |-> 0,
     TFlags |-> [NonBlink |-> FALSE, LetterSpacing |-> 0, AspectRatio |-> 0],
     TInfos |-> [lo |-> 0, hi |-> 0]]

\* mutant of DecodeTFlags: the aspect ratio is shifted by 2, over bit 2
DecodeTFlagsOverlapping(tflags) ==
    [NonBlink |-> BitAnd(tflags, 1) = 1,
     LetterSpacing |-> BitAnd(Shr(tflags, 1), 3),
     AspectRatio |-> BitAnd(Shr(tflags, 2), 3)]

\* the three assignments to r.TFlags from the byte tflags
DecodeTFlags(tflags) ==
    [NonBlink |-> BitAnd(tflags, 1) = 1,
     LetterSpacing |-> BitAnd(Shr(tflags, 1), 3),
     AspectRatio |-> BitAnd(Shr(tflags, 3), 3)]

\* mutant of TInfosSlice: the window offset is left out
TInfosSliceFromStart(bb, o) == [lo |-> 106, hi |-> Len(bb)]

\* r.TInfos = b[106+o:], a slice of b itself
TInfosSlice(bb, o) == [lo |-> 106 + o, hi |-> Len(bb)]

\* the window offset o
WindowOffset(bb) == Len(bb) - 128

\* mutant of HasSignature: the signature is looked for at the start of b
HasSignatureAtStart(bb, o) == Slice(bb, 0, 5) = ID

\* the signature test of ParseBytes
HasSignature(bb, o) == Slice(bb, o + 0, o + 5) = ID

\* the record ParseBytes fills in once the length and the signature passed
DecodeRecord(bb, o) ==
    [New EXCEPT
        !.Title = TrimSpace(Slice(bb, o + 7, o + 41)),
        !.Author = TrimSpace(Slice(bb, o + 41, o + 61)),
        !.Group = TrimSpace(Slice(bb, o + 61, o + 81)),
        !.Date = parseDate(Slice(bb, o + 82, o + 90)),
        !.FileSize = Uint32LE(Slice(bb, o + 91, o + 95)),
        !.DataType = bb[o + 94 + 1],
        !.FileType = bb[o + 95 + 1],
        !.TInfo = <<Uint16LE(Slice(bb, o + 96, o + 98)),
                    Uint16LE(Slice(bb, o + 98, o + 100)),
                    Uint16LE(Slice(bb, o + 100, o + 102)),
                    Uint16LE(Slice(bb, o + 102, o + 104))>>,
        !.Comments = bb[o + 104 + 1],
        !.TInfos = TInfosSlice(bb, o),
        !.TFlags = DecodeTFlags(bb[o + 105 + 1])]

\* mutant of ShortRead: the record allocated so far is returned with the error
ShortReadWithRecord == [r |-> <<New>>, err |-> errShortRead, ymd |-> NoYMD]

\* return nil, errors.New("Short read")
ShortRead == [r |-> <<>>, err |-> errShortRead, ymd |-> NoYMD]

\* ParseBytes(b): the returned (r, err) and the locals of its parseDate call
ParseBytes(bb) ==
    IF Len(bb) < 128
    THEN ShortRead
    ELSE LET o == WindowOffset(bb) IN
         IF ~HasSignature(bb, o)
         THEN [r |-> <<>>, err |-> errNoSauce, ymd |-> NoYMD]
         ELSE [r |-> <<DecodeRecord(bb, o)>>, err |-> "",
               ymd |-> parseDateYMD(Slice(bb, o + 82, o + 90))]

\* s.Seek(-128, 2) on a section reader over the whole resource (base 0,
\* limit = length): the returned position n and error
Seek(length) ==
    LET offset == length - 128 IN
    IF offset < 0 THEN [n |-> 0, err |-> errOffset] ELSE [n |-> offset, err |-> ""]

\* the test on the position Seek returned
SeekTooShort(n) == n < 128

\* the bytes of r.TInfos as b holds them now
TInfosBytes(rec, bb) == Slice(bb, rec.TInfos.lo, rec.TInfos.hi)

\* (r *SAUCE) Font()
Font(rec, bb) == Trim(TInfosBytes(rec, bb), {0, 32})

\* table[k], nil when the key is absent
Lookup(table, k) == IF k \in DOMAIN table THEN <<table[k]>> ELSE <<>>

\* table[k][j], "" when either key is absent
Lookup2(table, k, j) ==
    IF k \in DOMAIN table /\ j \in DOMAIN table[k] THEN table[k][j] ELSE ""

\* (r *SAUCE) FileTypeString() under the table ft
FileTypeString(rec, ft) ==
    IF Lookup(ft, rec.DataType) = <<>>
    THEN CASE rec.DataType = DataTypeBinaryText -> "BinaryText"
           [] rec.DataType = DataTypeXBIN -> "XBin"
           [] rec.DataType = DataTypeExecutable -> "Executable"
           [] OTHER -> ""
    ELSE Lookup2(ft, rec.DataType, rec.FileType)

\* mutant of MimeLookup: the packed-bitmap case is missing
MimeLookupNoXBin(rec, mt) ==
    IF Lookup(mt, rec.DataType) = <<>>
    THEN CASE rec.DataType = DataTypeBinaryText -> "text/x-binary"
           [] OTHER -> ""
    ELSE Lookup2(mt, rec.DataType, rec.FileType)

\* the value of t before the final test of MimeType()
MimeLookup(rec, mt) ==
    IF Lookup(mt, rec.DataType) = <<>>
    THEN CASE rec.DataType = DataTypeBinaryText -> "text/x-binary"
           [] rec.DataType = DataTypeXBIN -> "text/x-xbin"
           [] OTHER -> ""
    ELSE Lookup2(mt, rec.DataType, rec.FileType)

\* (r *SAUCE) MimeType() under the table mt
MimeTypeString(rec, mt) ==
    LET t == MimeLookup(rec, mt) IN
    IF t = "" THEN "application/octet-stream" ELSE t

(***************************************************************************)
(* Inputs: buffers built field by field at the offsets ParseBytes reads,   *)
(* and the contents of the package tables.                                 *)
(***************************************************************************)
\* w with the bytes s stored from offset off on
Put(w, off, s) ==
    [i \in 1..Len(w) |-> IF i > off /\ i <= off + Len(s) THEN s[i - off] ELSE w[i]]

\* s followed by the byte c up to width n
Pad(s, n, c) == [i \in 1..n |-> IF i <= Len(s) THEN s[i] ELSE c]

PutUint16LE(n) == <<n % 256, (n \div 256) % 256>>

PutUint32LE(n) ==
    <<n % 256, (n \div 256) % 256, (n \div 65536) % 256, (n \div 16777216) % 256>>

TestTitle == <<84, 101, 115, 116, 32, 84, 105, 116, 108, 101>>     \* "Test Title"
TestAuthor == <<65, 117, 116, 104, 111, 114>>                      \* "Author"
TestGroup == <<71, 114, 111, 117, 112>>                            \* "Group"
TestDate == <<50, 48, 50, 51, 48, 54, 49, 53>>                     \* "20230615"
Topaz == <<84, 111, 112, 97, 122>>                                 \* "Topaz"

\* a text field of the given width in one of its paddings
TextField(text, width, variant) ==
    CASE variant = "space" -> Pad(text, width, 32)
      [] variant = "nul" -> Pad(text, width, 0)
      [] variant = "blank" -> Rep(width, 32)
      [] variant = "inner" -> Pad(<<32, 9>> \o text \o <<13, 10>>, width, 32)
      [] variant = "full" -> Rep(width, 65)

TextVariants == {"space", "nul", "blank", "inner", "full"}

\* the fields of the window of a case, stored in the order of the layout
Window(c) ==
    LET w0 == Rep(128, c.fill)
        w1 == Put(w0, 0, c.sig)
        w2 == Put(w1, 7, TextField(TestTitle, 34, c.text))
        w3 == Put(w2, 41, TextField(TestAuthor, 20, c.text))
        w4 == Put(w3, 61, TextField(TestGroup, 20, c.text))
        w5 == Put(w4, 82, c.date)
        w6 == Put(w5, 91, PutUint32LE(c.size))
        w7 == Put(w6, 94, <<c.dt>>)
        w8 == Put(w7, 95, <<c.ft>>)
        w9 == Put(w8, 96, PutUint16LE(c.tinfo[1]) \o PutUint16LE(c.tinfo[2])
                          \o PutUint16LE(c.tinfo[3]) \o PutUint16LE(c.tinfo[4]))
        w10 == Put(w9, 104, <<c.comments>>)
        w11 == Put(w10, 105, <<c.flags>>)
    IN  Put(w11, 106, c.tinfos)

\* a window with nothing but the signature and one repeated byte
Garbage(sig, g) == Put(Rep(128, g), 0, sig)

\* the fixture record: every other case varies it
Fixture ==
    [sig |-> ID, text |-> "space", date |-> TestDate, size |-> 1024, dt |-> 1,
     ft |-> 0, tinfo |-> <<80, 25, 0, 0>>, comments |-> 0, flags |-> 5,
     tinfos |-> Pad(Topaz, 22, 0), fill |-> 0]

FixtureWindow == Window(Fixture)

\* a buffer of the given length ending in (or, when shorter, starting like) w;
\* the bytes in front of the window repeat a window that carries the signature
Buffer(w, length) ==
    IF length < 128 THEN SubSeq(w, 1, length)
    ELSE [i \in 1..(length - 128) |-> FixtureWindow[((i - 1) % 128) + 1]] \o w

ShortLens == {0, 1, 5, 64, 127}

LongLens == {128 + k : k \in 0..MaxExtra} \cup {255} \cup {256 + k : k \in 0..MaxExtra}

Sigs ==
    {ID, <<83, 65, 85, 67, 70>>, <<84, 65, 85, 67, 69>>, <<115, 97, 117, 99, 101>>,
     <<32, 83, 65, 85, 67>>, <<0, 0, 0, 0, 0>>}

DateChars == {48, 49, 57, 65, 32, 43, 45}

YearChars == {48, 55, 65, 43, 45}

Dates ==
    {<<a1, a2, a3, a4, 48, 54, 49, 53>> : a1 \in YearChars, a2 \in YearChars,
                                          a3 \in YearChars, a4 \in YearChars}
    \cup {<<50, 48, 50, 51, a1, a2, 49, 53>> : a1 \in DateChars, a2 \in DateChars}
    \cup {<<50, 48, 50, 51, 48, 54, a1, a2>> : a1 \in DateChars, a2 \in DateChars}
    \cup {<<50, 48, 50, 51, 49, 65, 48, 49>>, <<49, 57, 55, 48, 48, 49, 48, 49>>,
          <<48, 48, 48, 48, 48, 48, 48, 48>>, <<57, 57, 57, 57, 57, 57, 57, 57>>,
          <<50, 48, 50, 52, 48, 50, 51, 48>>, <<45, 57, 57, 57, 45, 57, 45, 57>>}

TInfosValues ==
    {Rep(22, 0), Rep(22, 32), Pad(Topaz, 22, 0), Pad(Topaz, 22, 32), Rep(22, 66),
     Pad(<<0, 32>> \o Topaz \o <<32, 0, 97>>, 22, 0),
     Pad(<<32, 0>>, 22, 65), Pad(<<0>>, 21, 32) \o <<0>>}

DataTypes == {0, 1, 5, 6, 8, 9}

FileTypes == {0, 1, 2}

NameTable == (1 :> (0 :> "ASCII" @@ 1 :> "ANSi"))

FileTypeTables ==
    {<< >>, NameTable, NameTable @@ (5 :> (0 :> "Custom")),
     NameTable @@ (8 :> (0 :> "") @@ 6 :> (1 :> "Packed"))}

MimeTable == (1 :> (0 :> "text/plain" @@ 1 :> "text/x-ansi"))

MimeTypeTables ==
    {<< >>, MimeTable, MimeTable @@ (5 :> (0 :> "text/x-custom")),
     MimeTable @@ (6 :> (0 :> "") @@ 8 :> (1 :> "application/x-dosexec"))}

\* buffers of every length under every signature
LengthInputs ==
    {Buffer(Window([Fixture EXCEPT !.sig = s]), n) : s \in Sigs, n \in ShortLens \cup LongLens}

\* buffers whose records differ in the two type codes
TypeInputs ==
    {Buffer(Window([Fixture EXCEPT !.dt = d, !.ft = f]), 128) : d \in DataTypes, f \in FileTypes}

\* buffers whose records differ in the other fields; window byte 94 stays
\* below 128 so that the uint32 FileSize fits the checker's integers, and the
\* bytes are single-byte runes
FieldInputs ==
    {Buffer(Garbage(s, g), n) : s \in Sigs, g \in {0, 32, 43, 45, 65, 127}, n \in LongLens}
    \cup {Buffer(Window([Fixture EXCEPT !.flags = f]), n) : f \in Byte, n \in {128, 128 + MaxExtra}}
    \cup {Buffer(Window([Fixture EXCEPT !.date = d]), 128) : d \in Dates}
    \cup {Buffer(Window([Fixture EXCEPT !.text = t, !.fill = g]), n) :
            t \in TextVariants, g \in {0, 32}, n \in LongLens}
    \cup {Buffer(Window([Fixture EXCEPT !.tinfos = t]), n) : t \in TInfosValues, n \in LongLens}
    \cup {Buffer(Window([Fixture EXCEPT !.size = z, !.dt = d, !.comments = k,
                                        !.tinfo = <<65535, z % 65536, 256, 255>>]), 128) :
            z \in {0, 1, 1024, 65536, 16777215}, d \in {0, 1, 127}, k \in {0, 255}}

\* the environments a call runs in: the input, the two tables, the reader
Cases ==
    {[input |-> x, ft |-> NameTable, mt |-> MimeTable, io |-> f] :
        x \in LengthInputs, f \in BOOLEAN}
    \cup {[input |-> x, ft |-> t, mt |-> m, io |-> FALSE] :
        x \in TypeInputs, t \in FileTypeTables, m \in MimeTypeTables}
    \cup {[input |-> x, ft |-> NameTable, mt |-> MimeTable, io |-> FALSE] : x \in FieldInputs}

(***************************************************************************)
(* The state machine: one call of an entry point, then accessor calls on   *)
(* the record and writes of the caller to the buffer it passed.            *)
(***************************************************************************)
NoOut == [fn |-> "", str |-> "", bytes |-> <<>>]

Init ==
    /\ \E c \in Cases :
         /\ input = c.input
         /\ FileType = c.ft
         /\ MimeType = c.mt
         /\ ioFail = c.io
    /\ pc = "idle"
    /\ op = ""
    /\ b = <<>>
    /\ r = <<>>
    /\ err = ""
    /\ ymd = NoYMD
    /\ nread = 0
    /\ out = NoOut
    /\ writes = 0

\* ParseBytes(input): b is the caller's buffer itself
CallParseBytes ==
    /\ pc = "idle"
    /\ LET res == ParseBytes(input) IN
         /\ r' = res.r
         /\ err' = res.err
         /\ ymd' = res.ymd
    /\ b' = input
    /\ op' = "ParseBytes"
    /\ pc' = "done"
    /\ UNCHANGED <<input, FileType, MimeType, nread, ioFail, out, writes>>

\* ParseReader(i): ReadAll, the length test, then ParseBytes on what was read
CallParseReader ==
    /\ pc = "idle"
    /\ IF ioFail
       THEN /\ r' = <<>>
            /\ err' = errIO
            /\ UNCHANGED <<b, ymd, nread>>
       ELSE /\ nread' = Len(input)
            /\ IF Len(input) < 128
               THEN /\ r' = <<>>
                    /\ err' = errShortRead
                    /\ UNCHANGED <<b, ymd>>
               ELSE LET res == ParseBytes(input) IN
                      /\ r' = res.r
                      /\ err' = res.err
                      /\ ymd' = res.ymd
                      /\ b' = input
    /\ op' = "ParseReader"
    /\ pc' = "done"
    /\ UNCHANGED <<input, FileType, MimeType, ioFail, out, writes>>

\* Parse(s): Seek, the test on the position, Read of 128 bytes, ParseBytes
CallParse ==
    /\ pc = "idle"
    /\ LET sk == Seek(Len(input)) IN
         IF sk.err # ""
         THEN /\ r' = <<>>
              /\ err' = sk.err
              /\ UNCHANGED <<b, ymd, nread>>
         ELSE IF SeekTooShort(sk.n)
         THEN /\ r' = <<>>
              /\ err' = errShortRead
              /\ UNCHANGED <<b, ymd, nread>>
         ELSE IF ioFail
         THEN /\ r' = <<>>
              /\ err' = errIO
              /\ UNCHANGED <<b, ymd, nread>>
         ELSE LET bb == Slice(input, sk.n, sk.n + 128)
                  res == ParseBytes(bb)
              IN  /\ nread' = 128
                  /\ b' = bb
                  /\ r' = res.r
                  /\ err' = res.err
                  /\ ymd' = res.ymd
    /\ op' = "Parse"
    /\ pc' = "done"
    /\ UNCHANGED <<input, FileType, MimeType, ioFail, out, writes>>

CallFileTypeString ==
    /\ pc = "done"
    /\ r # <<>>
    /\ out' = [fn |-> "FileTypeString", str |-> FileTypeString(r[1], FileType), bytes |-> <<>>]
    /\ UNCHANGED <<input, FileType, MimeType, pc, op, b, r, err, ymd, nread, ioFail, writes>>

CallMimeType ==
    /\ pc = "done"
    /\ r # <<>>
    /\ out' = [fn |-> "MimeType", str |-> MimeTypeString(r[1], MimeType), bytes |-> <<>>]
    /\ UNCHANGED <<input, FileType, MimeType, pc, op, b, r, err, ymd, nread, ioFail, writes>>

CallFont ==
    /\ pc = "done"
    /\ r # <<>>
    /\ out' = [fn |-> "Font", str |-> "", bytes |-> Font(r[1], b)]
    /\ UNCHANGED <<input, FileType, MimeType, pc, op, b, r, err, ymd, nread, ioFail, writes>>

\* offsets of the buffer the caller writes to
WriteOffsets(length) ==
    {0} \cup {length - 128 + k : k \in {7, 105, 106, 127}}

\* the caller stores v at offset i of the buffer it passed to ParseBytes
CallerWrite(i, v) ==
    /\ pc = "done"
    /\ op = "ParseBytes"
    /\ writes < MaxWrites
    /\ i >= 0 /\ i < Len(input)
    /\ input' = [input EXCEPT ![i + 1] = v]
    /\ b' = input'
    /\ writes' = writes + 1
    /\ UNCHANGED <<FileType, MimeType, pc, r, op, err, ymd, nread, ioFail, out>>

Next ==
    \/ CallParseBytes
    \/ CallParseReader
    \/ CallParse
    \/ CallFileTypeString
    \/ CallMimeType
    \/ CallFont
    \/ \E i \in WriteOffsets(Len(input)), v \in {0, 66} : CallerWrite(i, v)

Spec == Init /\ [][Next]_vars

(***************************************************************************)
(* Properties.                                                             *)
(***************************************************************************)
\* the trailing 128 bytes of a buffer of at least 128 bytes
TrailingWindow(buf) == SubSeq(buf, Len(buf) - 127, Len(buf))

\* the window starts with the five bytes S A U C E
StartsWithSAUCE(w) ==
    w[1] = 83 /\ w[2] = 65 /\ w[3] = 85 /\ w[4] = 67 /\ w[5] = 69

\* ParseBytes has returned and the caller has not touched its buffer since
AfterParseBytes == pc = "done" /\ op = "ParseBytes" /\ writes = 0

\* C1: on a buffer of at least 128 bytes ParseBytes fails with "No SAUCE
\* record" and no record exactly when the first 5 bytes of the trailing
\* window are not "SAUCE"; on every other such buffer it returns a record and
\* no error, whatever the other 123 bytes are.
C1_SignatureDecides ==
    (AfterParseBytes /\ Len(input) >= 128) =>
        IF StartsWithSAUCE(TrailingWindow(input))
        THEN err = "" /\ r # <<>>
        ELSE err = errNoSauce /\ r = <<>>

\* C1 witness: a buffer longer than 128 bytes whose window carries the
\* signature and letters where the date digits, size and type codes belong
\* was decoded into a record.
C1_Witness ==
    /\ AfterParseBytes
    /\ Len(input) > 128
    /\ r # <<>>
    /\ \A k \in 82..104 : TrailingWindow(input)[k + 1] = 65

\* C2: on a buffer or a fully read stream of fewer than 128 bytes ParseBytes
\* and ParseReader fail with "Short read" and return nil.
C2_ShortRead ==
    (/\ pc = "done"
     /\ op \in {"ParseBytes", "ParseReader"}
     /\ ~(op = "ParseReader" /\ ioFail)
     /\ Len(input) < 128) =>
        err = errShortRead /\ r = <<>>

\* C2 witness: ParseReader returned on a stream of 127 bytes that starts with
\* the signature.
C2_Witness ==
    /\ pc = "done"
    /\ op = "ParseReader"
    /\ ~ioFail
    /\ Len(input) = 127
    /\ StartsWithSAUCE(input)
    /\ err = errShortRead

\* the window holds the fields of the fixture at the offsets of the layout
IsFixtureWindow(w) ==
    /\ StartsWithSAUCE(w)
    /\ Slice(w, 7, 41) = Pad(TestTitle, 34, 32)
    /\ Slice(w, 41, 61) = Pad(TestAuthor, 20, 32)
    /\ Slice(w, 61, 81) = Pad(TestGroup, 20, 32)
    /\ Slice(w, 82, 90) = TestDate
    /\ Slice(w, 91, 94) = <<0, 4, 0>>
    /\ w[94 + 1] = 1
    /\ w[95 + 1] = 0
    /\ Slice(w, 96, 104) = <<80, 0, 25, 0, 0, 0, 0, 0>>
    /\ w[104 + 1] = 0
    /\ w[105 + 1] = 5

\* what the claim and the code agree on for the fixture
FixtureCommon(rec) ==
    /\ rec.Title = TestTitle
    /\ rec.Author = TestAuthor
    /\ rec.Group = TestGroup
    /\ rec.Date = [y |-> 2023, m |-> 6, d |-> 15]
    /\ rec.TFlags.NonBlink = TRUE
    /\ rec.TFlags.AspectRatio = 0

DecodesFixture == AfterParseBytes /\ Len(input) >= 128 /\ IsFixtureWindow(TrailingWindow(input))

\* C3 as stated: the fixture decodes to title "Test Title", author "Author",
\* group "Group", date 2023-06-15, file size 1024, non-blink on, letter
\* spacing 1 (8px), aspect ratio 0.
C3_FixtureAsStated ==
    DecodesFixture =>
        /\ r # <<>>
        /\ FixtureCommon(r[1])
        /\ r[1].FileSize = 1024
        /\ r[1].TFlags.LetterSpacing = 1

\* C3 amended: the fixture decodes to the same title, author, group, date,
\* non-blink and aspect ratio, but to file size 16778240 (window byte 94 is
\* both the data type code 1 and the top byte of the size) and to letter
\* spacing 2 (9px), since 0b101 >> 1 is 0b10.
C3_Fixture ==
    DecodesFixture =>
        /\ r # <<>>
        /\ FixtureCommon(r[1])
        /\ r[1].FileSize = 16778240
        /\ r[1].TFlags.LetterSpacing = 2
        /\ r[1].DataType = 1

\* C3 witness: the fixture, behind other data, was decoded.
C3_Witness == DecodesFixture /\ Len(input) > 128 /\ r # <<>>

\* C4: for every flags byte f at window offset 105 decoding succeeds with
\* NonBlink = bit 0, LetterSpacing = (f >> 1) & 3, AspectRatio = (f >> 3) & 3;
\* the three values are disjoint bit ranges that make up f mod 32, bits 5-7
\* do not matter, and each of 0..3 is a value of both 2-bit fields.
C4_Flags ==
    (AfterParseBytes /\ Len(input) >= 128 /\ StartsWithSAUCE(TrailingWindow(input))) =>
        LET f == TrailingWindow(input)[105 + 1]
            t == r[1].TFlags
            nb == IF t.NonBlink THEN 1 ELSE 0
        IN  /\ err = "" /\ r # <<>>
            /\ t.NonBlink = (f % 2 = 1)
            /\ t.LetterSpacing = (f \div 2) % 4
            /\ t.AspectRatio = (f \div 8) % 4
            /\ nb + 2 * t.LetterSpacing + 8 * t.AspectRatio = f % 32
            /\ t = DecodeTFlags(f % 32)
            /\ \A v \in 0..3 : /\ DecodeTFlags(2 * v + 249).LetterSpacing = v
                               /\ DecodeTFlags(8 * v + 231).AspectRatio = v

\* C4 witness: a flags byte with bits 5-7 set and both 2-bit fields at 3
\* ("invalid") was decoded.
C4_Witness ==
    /\ AfterParseBytes
    /\ r # <<>>
    /\ TrailingWindow(input)[105 + 1] = 254
    /\ r[1].TFlags = [NonBlink |-> FALSE, LetterSpacing |-> 3, AspectRatio |-> 3]

\* the fields of a record, with the bytes TInfos reads from its array
RecordView(rec, bb) ==
    [rec EXCEPT !.TInfos = TInfosBytes(rec, bb)]

\* C5 as stated: on a readable resource of at least 128 bytes Parse reads
\* exactly 128 bytes and returns what ParseBytes returns on the whole
\* content, never "Short read".
C5_ParseAgreesWithParseBytes ==
    (pc = "done" /\ op = "Parse" /\ ~ioFail /\ Len(input) >= 128) =>
        LET res == ParseBytes(input) IN
        /\ err # errShortRead
        /\ err = res.err
        /\ nread = 128
        /\ (r = <<>>) = (res.r = <<>>)
        /\ r # <<>> => RecordView(r[1], b) = RecordView(res.r[1], input)

\* C6 as stated: on a resource of fewer than 128 bytes Parse fails with
\* "Short read", returns nil and has read nothing.
C6_ParseShortRead ==
    (pc = "done" /\ op = "Parse" /\ Len(input) < 128) =>
        err = errShortRead /\ r = <<>> /\ nread = 0

AllDigits(s) == \A i \in 1..Len(s) : s[i] \in 48..57

RECURSIVE Decimal(_)
\* the base-10 value of a string of digits
Decimal(s) ==
    IF s = <<>> THEN 0
    ELSE 10 * Decimal(SubSeq(s, 1, Len(s) - 1)) + (s[Len(s)] - 48)

\* the date field of the window and its three substrings
DateField(w) == Slice(w, 82, 90)

DateParts(w) == <<Slice(w, 82, 86), Slice(w, 86, 88), Slice(w, 88, 90)>>

Decoded == AfterParseBytes /\ Len(input) >= 128 /\ r # <<>>

\* C7 as stated: each of year, month, day is the base-10 value of its
\* substring when that is all digits and 0 when it holds any other
\* character, a sign included.
C7_DateAsStated ==
    Decoded =>
        \A k \in 1..3 :
            LET s == DateParts(TrailingWindow(input))[k] IN
            ymd[k] = IF AllDigits(s) THEN Decimal(s) ELSE 0

\* C7 amended: each of year, month, day is the base-10 value of its
\* substring when that is all digits, the signed value when it is one '+' or
\* '-' followed by digits only, and 0 otherwise; decoding does not fail, and
\* "20231A01" gives year 2023, month 0, day 1.
C7_Date ==
    Decoded =>
        /\ err = ""
        /\ \A k \in 1..3 :
            LET s == DateParts(TrailingWindow(input))[k] IN
            ymd[k] = IF AllDigits(s) THEN Decimal(s)
                     ELSE IF s[1] = 43 /\ AllDigits(Tail(s)) THEN Decimal(Tail(s))
                     ELSE IF s[1] = 45 /\ AllDigits(Tail(s)) THEN 0 - Decimal(Tail(s))
                     ELSE 0
        /\ DateField(TrailingWindow(input)) = <<50, 48, 50, 51, 49, 65, 48, 49>>
              => ymd = <<2023, 0, 1>>

\* C7 witness: the date "20231A01" was decoded.
C7_Witness ==
    /\ Decoded
    /\ DateField(TrailingWindow(input)) = <<50, 48, 50, 51, 49, 65, 48, 49>>
    /\ ymd = <<2023, 0, 1>>

HardName(dt) ==
    CASE dt = DataTypeBinaryText -> "BinaryText"
      [] dt = DataTypeXBIN -> "XBin"
      [] dt = DataTypeExecutable -> "Executable"

HardMime(dt) ==
    CASE dt = DataTypeBinaryText -> "text/x-binary"
      [] dt = DataTypeXBIN -> "text/x-xbin"

Distinguished == {DataTypeBinaryText, DataTypeXBIN, DataTypeExecutable}

\* the mimeType table resolves the record to a non-empty string
MimeResolved(rec) ==
    /\ rec.DataType \in DOMAIN MimeType
    /\ rec.FileType \in DOMAIN MimeType[rec.DataType]
    /\ MimeType[rec.DataType][rec.FileType] # ""

\* C8 as stated: a data type code without an entry in the fileTypeName
\* table that is one of the three distinguished codes gets the hardcoded
\* name from FileTypeString and, for binary text and packed bitmap, the
\* hardcoded literal from MimeType; every other unresolved case gets
\* "application/octet-stream"; MimeType is never empty.
C8_FallbackAsStated ==
    (pc = "done" /\ r # <<>>) =>
        LET dt == r[1].DataType
            hard == dt \notin DOMAIN FileType /\ dt \in {DataTypeBinaryText, DataTypeXBIN}
        IN  /\ (out.fn = "FileTypeString" /\ dt \notin DOMAIN FileType /\ dt \in Distinguished)
                  => out.str = HardName(dt)
            /\ (out.fn = "MimeType" /\ hard) => out.str = HardMime(dt)
            /\ (out.fn = "MimeType" /\ ~hard /\ ~MimeResolved(r[1]))
                  => out.str = "application/octet-stream"
            /\ out.fn = "MimeType" => out.str # ""

\* C8 amended: FileTypeString falls back on the absence of the code from the
\* fileTypeName table, MimeType on its absence from the mimeType table: a
\* distinguished code without fileTypeName entry gets the hardcoded name; a
\* binary-text or packed-bitmap code without mimeType entry gets the
\* hardcoded literal; every other record the mimeType table does not resolve
\* to a non-empty string gets "application/octet-stream"; MimeType is never
\* empty.
C8_Fallback ==
    (pc = "done" /\ r # <<>>) =>
        LET dt == r[1].DataType
            hard == dt \notin DOMAIN MimeType /\ dt \in {DataTypeBinaryText, DataTypeXBIN}
        IN  /\ (out.fn = "FileTypeString" /\ dt \notin DOMAIN FileType /\ dt \in Distinguished)
                  => out.str = HardName(dt)
            /\ (out.fn = "MimeType" /\ hard) => out.str = HardMime(dt)
            /\ (out.fn = "MimeType" /\ ~hard /\ ~MimeResolved(r[1]))
                  => out.str = "application/octet-stream"
            /\ out.fn = "MimeType" => out.str # ""

\* C8 witness: MimeType fell back to the packed-bitmap literal for a code
\* that has a fileTypeName entry but no mimeType entry.
C8_Witness ==
    /\ pc = "done" /\ r # <<>>
    /\ out.fn = "MimeType"
    /\ r[1].DataType = DataTypeXBIN
    /\ DataTypeXBIN \in DOMAIN FileType
    /\ DataTypeXBIN \notin DOMAIN MimeType
    /\ out.str = "text/x-xbin"

Padding == {0, 32}

\* f is t without its leading and trailing NUL and space bytes
IsTrimmed(f, t) ==
    /\ f # <<>> => f[1] \notin Padding /\ f[Len(f)] \notin Padding
    /\ \E i \in 0..Len(t) :
         /\ i + Len(f) <= Len(t)
         /\ f = SubSeq(t, i + 1, i + Len(f))
         /\ \A k \in 1..Len(t) : (k <= i \/ k > i + Len(f)) => t[k] \in Padding

\* C9: whenever a record was produced, TInfos is exactly 22 bytes long and
\* reads bytes 106..127 of the trailing window of the decoded buffer, however
\* much data precedes the window; Font() is that field without its leading
\* and trailing NUL and space bytes, empty when there is nothing else.
C9_TInfos ==
    (pc = "done" /\ r # <<>>) =>
        LET t == TInfosBytes(r[1], b) IN
        /\ Len(t) = 22
        /\ r[1].TInfos.hi - r[1].TInfos.lo = 22
        /\ t = SubSeq(TrailingWindow(b), 107, 128)
        /\ op # "Parse" => t = SubSeq(input, Len(input) - 21, Len(input))
        /\ IsTrimmed(Font(r[1], b), t)
        /\ (\A k \in 1..22 : t[k] \in Padding) => Font(r[1], b) = <<>>
        /\ (out.fn = "Font" /\ writes = 0) => IsTrimmed(out.bytes, t)

\* C9 witness: Font() returned "Topaz" from a field padded on both sides, in
\* a buffer longer than its window.
C9_Witness ==
    /\ pc = "done" /\ r # <<>>
    /\ Len(b) > 128
    /\ out.fn = "Font"
    /\ out.bytes = Topaz
    /\ TInfosBytes(r[1], b)[1] = 0
    /\ TInfosBytes(r[1], b)[22] = 0

====
